---- MODULE Spec2Model ----
(***************************************************************************)
(* poke_plugin (plugin.py): the ActivePokeAction of the QQ poke plugin.    *)
(* The model follows one action object through its executions: the config  *)
(* reload, the target resolution get_ids with its gateway lookups, the     *)
(* self check, send_poke and the reported outcome.  The gateway (Napcat)   *)
(* and the operator editing config.toml are the environment.               *)
(*                                                                         *)
(* Python values are tagged tuples: None is <<>>, an int n is <<"int", n>>,*)
(* a str is <<"str", chars>> with chars a sequence of one-character        *)
(* strings.  Message texts of the source are in Chinese; the model uses an *)
(* English gloss for each of them, named after the line that builds it.    *)
(***************************************************************************)
EXTENDS Integers, Sequences, FiniteSets, TLC

VARIABLES
    disk,           \* content of config.toml ([poke] section) on disk
    plugin,         \* getattr(self, 'plugin', None): "none", or "ok" (a plugin with the reload hook)
    plugin_config,  \* self.plugin_config ([poke] section)
    napcat_host,    \* self.napcat_host
    napcat_port,    \* self.napcat_port
    poke_debug,     \* self.poke_debug
    token,          \* self.token
    context,        \* ambient attributes: message/chat_stream/self group ids, self.user_id
    action_data,    \* self.action_data, a dict (function on its keys)
    pc,             \* position of the current execution of execute
    user_id,        \* user_id returned by get_ids (local of execute)
    group_id,       \* group_id of get_ids / returned by it
    looked_up,      \* get_ids' local user_id before the ambient fallback (line 319)
    calls,          \* gateway requests of the current execution, in order
    received,       \* gateway replies read by the function now running (get_ids, then send_poke)
    outcome         \* the (bool, str) returned by execute, or NoOutcome

vars == <<disk, plugin, plugin_config, napcat_host, napcat_port, poke_debug, token,
          context, action_data, pc, user_id, group_id, looked_up, calls, received,
          outcome>>

object == <<plugin, napcat_host, napcat_port, poke_debug, token, context>>

-----------------------------------------------------------------------------
(* Python values *)

None == <<>>
PyI(n) == <<"int", n>>
PyS(chars) == <<"str", chars>>

\* bool(v), as used by `if x`, `not x`, `x or y`
Truthy(v) ==
    /\ v # None
    /\ (v[1] = "int" => v[2] # 0)
    /\ (v[1] = "str" => v[2] # <<>>)

Digit == <<"0", "1", "2", "3", "4", "5", "6", "7", "8", "9">>

RECURSIVE Decimal(_)
Decimal(n) ==
    IF n < 10 THEN <<Digit[n + 1]>>
    ELSE Decimal(n \div 10) \o <<Digit[(n % 10) + 1]>>

\* str(v): the characters of the text of v
str(v) ==
    IF v = None THEN <<"N", "o", "n", "e">>
    ELSE IF v[1] = "str" THEN v[2]
    ELSE Decimal(v[2])

DigitValue(c) == CHOOSE d \in 0..9 : Digit[d + 1] = c

RECURSIVE ParseDigits(_, _)
ParseDigits(chars, acc) ==
    IF chars = <<>> THEN acc
    ELSE ParseDigits(Tail(chars), 10 * acc + DigitValue(Head(chars)))

\* int(v): [ok |-> TRUE, val |-> n], or the exception it raises
int(v) ==
    IF v = None THEN [ok |-> FALSE, exc |-> "TypeError"]
    ELSE IF v[1] = "int" THEN [ok |-> TRUE, val |-> v[2]]
    ELSE IF v[2] # <<>> /\ \A i \in 1..Len(v[2]) : \E d \in 1..10 : Digit[d] = v[2][i]
         THEN [ok |-> TRUE, val |-> ParseDigits(v[2], 0)]
         ELSE [ok |-> FALSE, exc |-> "ValueError"]

\* the keyword compared for equality with the text (the "full match" of action_require)
Contains_Equal(needle, hay) == needle = hay

\* needle in hay, both character sequences
Contains(needle, hay) ==
    \E i \in 0..(Len(hay) - Len(needle)) : SubSeq(hay, i + 1, i + Len(needle)) = needle

\* d.get(k, None)
Get(d, k) == IF k \in DOMAIN d THEN d[k] ELSE None

-----------------------------------------------------------------------------
(* Configuration *)

DefaultHost == "127.0.0.1"
DefaultPort == PyS(<<"4", "9", "9", "9">>)

\* plugin_config.get("poke", {}).get(key, default)
CfgGet(cfg, key, default) == IF key \in DOMAIN cfg THEN cfg[key] ELSE default

\* The [poke] sections the file on disk takes in the model.
Configs ==
    { [host |-> "127.0.0.1", port |-> PyS(<<"8", "0">>), token |-> "", debug |-> TRUE],
      [host |-> "10.0.0.2", port |-> PyS(<<"8", "1">>), token |-> "secret", debug |-> FALSE],
      [port |-> PyS(<<"a", "b">>)] }

-----------------------------------------------------------------------------
(* Gateway replies.  A request ends in an exception (connection refused,   *)
(* timeout), in a body that is no JSON, in a JSON array, or in a JSON      *)
(* object with a status and the endpoint's data.                           *)

MaxMsgs == 2        \* messages in a /get_group_msg_history reply

NetErrors ==
    { [type |-> "ConnectionRefusedError", text |-> "[Errno 111] Connection refused"],
      [type |-> "TimeoutError", text |-> "timed out"] }

Refused == [kind |-> "error",
            exc |-> [type |-> "ConnectionRefusedError", text |-> "[Errno 111] Connection refused"]]
NotJson == [kind |-> "text", body |-> "<html>"]
JsonArray == [kind |-> "json_array", body |-> "[]"]
JsonObject(status, data) == [kind |-> "json_object", status |-> status, data |-> data]

SeqsUpTo(S, n) == UNION { [1..k -> S] : k \in 0..n }

Txt_a == PyS(<<"a">>)
Txt_b == PyS(<<"b">>)
Txt_ba == PyS(<<"b", "a">>)
Txt_empty == PyS(<<>>)

\* History messages: raw_message (None: JSON null) and sender.user_id (None: absent).
Messages ==
    { [raw_message |-> Txt_ba, sender |-> [user_id |-> PyI(1)]],
      [raw_message |-> Txt_a, sender |-> [user_id |-> PyI(2)]],
      [raw_message |-> Txt_b, sender |-> [user_id |-> PyI(2)]],
      [raw_message |-> Txt_a, sender |-> [user_id |-> None]],
      [raw_message |-> None, sender |-> [user_id |-> PyI(1)]] }

HistoryReplies ==
    { Refused, NotJson, JsonObject("failed", [messages |-> <<>>]) }
    \cup { JsonObject("ok", [messages |-> ms]) : ms \in SeqsUpTo(Messages, MaxMsgs) }

Members ==
    { [nickname |-> Txt_ba, card |-> Txt_empty, remark |-> Txt_empty, user_id |-> PyI(1)],
      [nickname |-> Txt_b, card |-> Txt_a, remark |-> Txt_empty, user_id |-> PyI(2)],
      [nickname |-> Txt_b, card |-> Txt_b, remark |-> Txt_b, user_id |-> PyI(1)],
      [nickname |-> Txt_b, card |-> None, remark |-> Txt_a, user_id |-> PyI(2)] }

MemberLists == { <<>> } \cup { <<m>> : m \in Members }

MemberReplies ==
    { Refused, NotJson, JsonObject("failed", <<>>) }
    \cup { JsonObject("ok", l) : l \in MemberLists }

Friends ==
    { [nickname |-> Txt_b, remark |-> Txt_ba, user_id |-> PyI(1)],
      [nickname |-> Txt_b, remark |-> Txt_empty, user_id |-> PyI(2)],
      [nickname |-> None, remark |-> Txt_a, user_id |-> PyI(2)] }

FriendLists == { <<>> } \cup { <<f>> : f \in Friends }

FriendReplies ==
    { Refused, NotJson, JsonObject("failed", <<>>) }
    \cup { JsonObject("ok", l) : l \in FriendLists }

Groups ==
    { [group_name |-> Txt_ba, group_remark |-> Txt_empty, group_id |-> PyI(5)],
      [group_name |-> Txt_b, group_remark |-> Txt_b, group_id |-> PyI(5)] }

GroupLists == { <<>> } \cup { <<g>> : g \in Groups }

GroupReplies ==
    { Refused, NotJson, JsonObject("failed", <<>>) }
    \cup { JsonObject("ok", l) : l \in GroupLists }

PokeReplies ==
    { [kind |-> "error", exc |-> e] : e \in NetErrors }
    \cup { NotJson, JsonArray, JsonObject("ok", <<>>), JsonObject("failed", <<>>) }

-----------------------------------------------------------------------------
(* The lookups of get_ids, each applied to the reply its request got *)

\* a in f1 or a in f2 or ...: "yes", "no", or "fault" (TypeError on a None field)
RECURSIVE MatchAny(_, _)
MatchAny(name, fields) ==
    IF fields = <<>> THEN "no"
    ELSE IF Head(fields) = None THEN "fault"
    ELSE IF Contains(name[2], Head(fields)[2]) THEN "yes"
    ELSE MatchAny(name, Tail(fields))

\* for row in rows: if <match>: return row id; a fault is caught: None
RECURSIVE FirstMatch(_, _)
FirstMatch(name, rows) ==
    IF rows = <<>> THEN None
    ELSE LET m == MatchAny(name, Head(rows).fields)
         IN  IF m = "fault" THEN None
             ELSE IF m = "yes" THEN Head(rows).id
             ELSE FirstMatch(name, Tail(rows))

\* the body of each try block: None unless the reply is a JSON object with status ok
Parsed(reply, rows) ==
    IF reply.kind = "json_object" /\ reply.status = "ok" THEN rows ELSE <<>>

napcat_get_user_id_from_group_history_by_msg(poke_keywords, reply) ==
    FirstMatch(poke_keywords,
        Parsed(reply, [i \in 1..Len(reply.data.messages) |->
            [fields |-> <<reply.data.messages[i].raw_message>>,
             id |-> reply.data.messages[i].sender.user_id]]))

napcat_get_group_member_id_by_name(target_name, reply) ==
    FirstMatch(target_name,
        Parsed(reply, [i \in 1..Len(reply.data) |->
            [fields |-> <<reply.data[i].nickname, reply.data[i].card, reply.data[i].remark>>,
             id |-> reply.data[i].user_id]]))

napcat_get_user_id_by_name(target_name, reply) ==
    FirstMatch(target_name,
        Parsed(reply, [i \in 1..Len(reply.data) |->
            [fields |-> <<reply.data[i].nickname, reply.data[i].remark>>,
             id |-> reply.data[i].user_id]]))

napcat_get_group_id_by_name(target_name, reply) ==
    FirstMatch(target_name,
        Parsed(reply, [i \in 1..Len(reply.data) |->
            [fields |-> <<reply.data[i].group_name, reply.data[i].group_remark>>,
             id |-> reply.data[i].group_id]]))

-----------------------------------------------------------------------------
(* Construction: ActivePokeAction.__init__ *)

\* Where a group id can come from (lines 285-294); data_group is action_data["group_id"].
GroupSources ==
    { [message_group |-> None, stream_group |-> None, data_group |-> None, self_group |-> None],
      [message_group |-> PyI(7), stream_group |-> PyI(8), data_group |-> None, self_group |-> None],
      [message_group |-> None, stream_group |-> None, data_group |-> PyI(9), self_group |-> PyI(6)],
      [message_group |-> None, stream_group |-> None, data_group |-> None, self_group |-> PyI(6)] }

\* self.user_id, the identity known from the triggering context
AmbientUsers == { None, PyS(<<"1">>) }

\* a user_id entry the action data may carry from the start
StaleUsers == { None, PyI(2) }

NoOutcome == [ok |-> FALSE, msg |-> <<>>, returned |-> FALSE]
Returned(ok, msg) == [ok |-> ok, msg |-> msg, returned |-> TRUE]

Put(d, k, v) == [x \in DOMAIN d \cup {k} |-> IF x = k THEN v ELSE d[x]]

InitialData(src, stale) ==
    LET d0 == [x \in {} |-> None]
        d1 == IF src.data_group = None THEN d0 ELSE Put(d0, "group_id", src.data_group)
    IN  IF stale = None THEN d1 ELSE Put(d1, "user_id", stale)

Init ==
    /\ disk \in Configs
    /\ plugin \in {"none", "ok"}
    /\ plugin_config = disk
    /\ napcat_host = CfgGet(disk, "host", DefaultHost)
    /\ napcat_port = CfgGet(disk, "port", DefaultPort)
    /\ poke_debug = CfgGet(disk, "debug", TRUE)
    /\ token = CfgGet(disk, "token", "")
    /\ \E src \in GroupSources, amb \in AmbientUsers, stale \in StaleUsers :
        /\ context = [message_group |-> src.message_group,
                      stream_group |-> src.stream_group,
                      self_group |-> src.self_group,
                      user_id |-> amb]
        /\ action_data = InitialData(src, stale)
    /\ pc = "idle"
    /\ user_id = None
    /\ group_id = None
    /\ looked_up = None
    /\ calls = <<>>
    /\ received = <<>>
    /\ outcome = NoOutcome

-----------------------------------------------------------------------------
(* The environment between two executions *)

Between == pc \in {"idle", "done", "raised"}

\* the operator edits config.toml
EditConfig ==
    /\ Between
    /\ \E c \in Configs : c # disk /\ disk' = c
    /\ UNCHANGED <<object, plugin_config, action_data, pc, user_id, group_id, looked_up,
                   calls, received, outcome>>

Keywords == { None, Txt_empty, Txt_a }
SelfIds == { None, PyI(1), PyS(<<"1">>) }

\* the host fills in the parameters of the decision layer and calls execute
Invoke ==
    /\ Between
    /\ \E kw \in Keywords, sid \in SelfIds :
        action_data' = Put(Put(action_data, "poke_keywords", kw), "self_id", sid)
    /\ pc' = "execute"
    /\ user_id' = None
    /\ group_id' = None
    /\ looked_up' = None
    /\ calls' = <<>>
    /\ received' = <<>>
    /\ outcome' = NoOutcome
    /\ UNCHANGED <<object, disk, plugin_config>>

-----------------------------------------------------------------------------
(* execute, lines 385-395: the reload of the configuration *)

ReloadConfig ==
    /\ pc = "execute"
    /\ plugin_config' = IF plugin = "ok" THEN disk ELSE plugin_config
    /\ pc' = "get_ids"
    /\ UNCHANGED <<object, disk, action_data, user_id, group_id, looked_up, calls,
                   received, outcome>>

-----------------------------------------------------------------------------
(* get_ids *)

\* lines 285-294
ContextGroupId ==
    LET g1 == context.message_group
        g2 == IF g1 = None THEN context.stream_group ELSE g1
        g3 == IF g2 = None THEN Get(action_data, "group_id") ELSE g2
    IN  IF g3 = None /\ Truthy(context.self_group) THEN context.self_group ELSE g3

\* the branches of line 308 swapped
FirstStage_Swapped(g) == IF Truthy(g) THEN "friend" ELSE "history"

\* lines 308-314: the first lookup
FirstStage(g) == IF Truthy(g) THEN "history" ELSE "friend"

\* a history failure ends the resolution: no member-list lookup
AfterHistory_Stop(u) == "return"

\* lines 310-312: the member list is asked when the history gave nothing
AfterHistory(u) == IF ~Truthy(u) THEN "member" ELSE "return"

\* lines 320-321 dropped
AmbientFallback_None(u) == u

\* lines 319-322
AmbientFallback(u) == IF ~Truthy(u) THEN context.user_id ELSE u

\* every request posted to the path of send_poke (the request code is copied per helper)
Request_Poke(endpoint, payload) ==
    [endpoint |-> "/send_poke", host |-> napcat_host, port |-> int(napcat_port).val,
     authorization |-> IF token # "" THEN <<token>> ELSE <<>>, payload |-> payload]

Request(endpoint, payload) ==
    [endpoint |-> endpoint, host |-> napcat_host, port |-> int(napcat_port).val,
     authorization |-> IF token # "" THEN <<token>> ELSE <<>>, payload |-> payload]

\* lines 285-304
GetIdsBegin ==
    /\ pc = "get_ids"
    /\ LET g == ContextGroupId
           poke_keywords == Get(action_data, "poke_keywords")
       IN  IF ~Truthy(poke_keywords)
             THEN pc' = "self_check" /\ group_id' = g
           ELSE IF ~int(napcat_port).ok
             THEN pc' = "raised" /\ group_id' = g
           ELSE pc' = FirstStage(g) /\ group_id' = g
    /\ UNCHANGED <<object, disk, plugin_config, action_data, user_id, looked_up, calls,
                   received, outcome>>

\* lines 309-311, and 316-322 when the history gave the user
HistoryLookup ==
    /\ pc = "history"
    /\ \E reply \in HistoryReplies :
        LET u == napcat_get_user_id_from_group_history_by_msg(
                     Get(action_data, "poke_keywords"), reply)
        IN  /\ calls' = Append(calls, Request("/get_group_msg_history", group_id))
            /\ received' = Append(received, reply)
            /\ looked_up' = u
            /\ IF AfterHistory(u) = "member"
                 THEN pc' = "member" /\ UNCHANGED user_id
                 ELSE pc' = "self_check" /\ user_id' = AmbientFallback(u)
    /\ UNCHANGED <<object, disk, plugin_config, action_data, group_id, outcome>>

\* lines 312, 316-322
MemberLookup ==
    /\ pc = "member"
    /\ \E reply \in MemberReplies :
        LET u == napcat_get_group_member_id_by_name(
                     Get(action_data, "poke_keywords"), reply)
        IN  /\ calls' = Append(calls, Request("/get_group_member_list", group_id))
            /\ received' = Append(received, reply)
            /\ looked_up' = u
            /\ user_id' = AmbientFallback(u)
    /\ pc' = "self_check"
    /\ UNCHANGED <<object, disk, plugin_config, action_data, group_id, outcome>>

\* line 314
FriendLookup ==
    /\ pc = "friend"
    /\ \E reply \in FriendReplies :
        /\ calls' = Append(calls, Request("/get_friend_list", None))
        /\ received' = Append(received, reply)
        /\ looked_up' = napcat_get_user_id_by_name(Get(action_data, "poke_keywords"), reply)
    /\ pc' = "group_list"
    /\ UNCHANGED <<object, disk, plugin_config, action_data, user_id, group_id, outcome>>

\* lines 316-322
GroupListLookup ==
    /\ pc = "group_list"
    /\ \E reply \in GroupReplies :
        /\ calls' = Append(calls, Request("/get_group_list", None))
        /\ received' = Append(received, reply)
        /\ group_id' = napcat_get_group_id_by_name(Get(action_data, "poke_keywords"), reply)
    /\ user_id' = AmbientFallback(looked_up)
    /\ pc' = "self_check"
    /\ UNCHANGED <<object, disk, plugin_config, action_data, looked_up, outcome>>

-----------------------------------------------------------------------------
(* execute, lines 399-416, and send_poke *)

MsgSelf == "cannot poke self"                 \* line 403
MsgException == "poke raised: "               \* line 407
MsgSuccess == "poke succeeded"                \* line 412
MsgFailed == "poke failed: "                  \* line 415
MsgUnknown == "unknown error"                 \* line 415
MsgHeaders == "poke request headers: "        \* line 434
MsgResponse == "poke done, response: "        \* line 441
MsgSendFault == "poke fault: "                \* line 453

\* the identities compared without str()
IsSelfTarget_NoStr(u, self_id) == Truthy(self_id) /\ u = self_id

\* line 401
IsSelfTarget(u, self_id) == Truthy(self_id) /\ str(u) = str(self_id)

\* line 434: the debug line on the request
DebugRequest(u, g) ==
    IF poke_debug
    THEN <<MsgHeaders, "Authorization=", token, "user_id=">> \o str(u)
         \o <<"group_id=">> \o str(g)
    ELSE <<>>

\* the text of a reply's body (line 439) and of its parsed form (line 445)
BodyText(reply) ==
    IF reply.kind = "json_object" THEN <<"status=", reply.status>> ELSE <<reply.body>>

\* the exception line appended under poke_debug only, like the other debug lines
SendFault_DebugOnly(debug_msgs, exc) ==
    [success |-> FALSE,
     result |-> IF poke_debug
                THEN debug_msgs \o <<MsgSendFault, "error_type=", exc.type,
                                      "error_message=", exc.text>>
                ELSE debug_msgs]

\* lines 448-454: the exception branch of send_poke
SendFault(debug_msgs, exc) ==
    [success |-> FALSE,
     result |-> debug_msgs \o <<MsgSendFault, "error_type=", exc.type,
                                "error_message=", exc.text>>]

\* lines 443-447: the parse of the body
SendParsed(debug_msgs, reply) ==
    IF reply.kind = "json_object"
    THEN [success |-> reply.status = "ok", result |-> debug_msgs \o BodyText(reply)]
    ELSE [success |-> TRUE, result |-> debug_msgs \o BodyText(reply)]

\* lines 432-454, on the reply the request got
send_poke(u, g, reply) ==
    IF reply.kind = "error"
    THEN SendFault(DebugRequest(u, g), reply.exc)
    ELSE SendParsed(DebugRequest(u, g)
                    \o (IF poke_debug THEN <<MsgResponse>> \o BodyText(reply) ELSE <<>>),
                    reply)

\* lines 425-427
PokePayload(u, g) == IF g # None THEN [user_id |-> u, group_id |-> g] ELSE [user_id |-> u]

\* lines 408-409
ClearUserId(d) == IF "user_id" \in DOMAIN d THEN Put(d, "user_id", None) ELSE d

\* lines 410-416
Report(res) ==
    IF res.success THEN Returned(TRUE, <<MsgSuccess>>)
    ELSE Returned(FALSE, <<MsgFailed>> \o (IF res.result # <<>> THEN res.result
                                                                ELSE <<MsgUnknown>>))

\* lines 399-403: the return at line 403 skips lines 408-409
SelfReject ==
    /\ pc = "self_check"
    /\ IsSelfTarget(user_id, Get(action_data, "self_id"))
    /\ outcome' = Returned(FALSE, <<MsgSelf>>)
    /\ received' = <<>>
    /\ pc' = "done"
    /\ UNCHANGED <<object, disk, plugin_config, action_data, user_id, group_id, looked_up,
                   calls>>

\* lines 404-407: int(self.napcat_port) raises in send_poke (line 421), execute catches
\* it and returns at line 407, before lines 408-409
SendPokeRaises ==
    /\ pc = "self_check"
    /\ ~IsSelfTarget(user_id, Get(action_data, "self_id"))
    /\ ~int(napcat_port).ok
    /\ outcome' = Returned(FALSE, <<MsgException, int(napcat_port).exc>>)
    /\ received' = <<>>
    /\ pc' = "done"
    /\ UNCHANGED <<object, disk, plugin_config, action_data, user_id, group_id, looked_up,
                   calls>>

\* lines 404, 408-416
SendPoke ==
    /\ pc = "self_check"
    /\ ~IsSelfTarget(user_id, Get(action_data, "self_id"))
    /\ int(napcat_port).ok
    /\ \E reply \in PokeReplies :
        /\ calls' = Append(calls, Request("/send_poke", PokePayload(user_id, group_id)))
        /\ received' = <<reply>>
        /\ outcome' = Report(send_poke(user_id, group_id, reply))
    /\ action_data' = ClearUserId(action_data)
    /\ pc' = "done"
    /\ UNCHANGED <<object, disk, plugin_config, user_id, group_id, looked_up>>

-----------------------------------------------------------------------------

Next ==
    \/ EditConfig
    \/ Invoke
    \/ ReloadConfig
    \/ GetIdsBegin
    \/ HistoryLookup
    \/ MemberLookup
    \/ FriendLookup
    \/ GroupListLookup
    \/ SelfReject
    \/ SendPokeRaises
    \/ SendPoke

Spec == Init /\ [][Next]_vars

-----------------------------------------------------------------------------
(* Properties *)

Keyword == Get(action_data, "poke_keywords")
SelfId == Get(action_data, "self_id")
Ambient == context.user_id

Endpoints == [i \in DOMAIN calls |-> calls[i].endpoint]
Called(endpoint) == \E i \in DOMAIN calls : calls[i].endpoint = endpoint

\* get_ids has returned to execute, which has not gone on yet
GetIdsReturned == pc = "self_check"

\* some source of lines 285-294 holds a group id
ContextGroupKnown ==
    \/ context.message_group # None
    \/ context.stream_group # None
    \/ Get(action_data, "group_id") # None
    \/ context.self_group # None

\* the same identity, whether held as a number or as its text
SameIdentity(a, b) == a # None /\ b # None /\ str(a) = str(b)

InMessage(part) == \E i \in DOMAIN outcome.msg : outcome.msg[i] = part

\* a lookup reply that is a gateway failure: connection error, non-JSON body, non-ok status
Failed(reply) == reply.kind # "json_object" \/ reply.status # "ok"

\* text is some run of consecutive characters of whole
Substring(text, whole) ==
    \E first \in 1..(Len(whole) + 1), last \in 0..Len(whole) :
        last >= first - 1 /\ SubSeq(whole, first, last) = text

\* the messages of a history reply whose raw_message has the keyword as a substring
Matching(kw, messages) ==
    { i \in DOMAIN messages :
        /\ messages[i].raw_message # None
        /\ Substring(kw[2], messages[i].raw_message[2]) }

\* get_ids returned after a history lookup whose reply holds exactly one matching message
OneHistoryMatch ==
    /\ GetIdsReturned
    /\ ContextGroupKnown
    /\ Truthy(Keyword)
    /\ calls # <<>>
    /\ calls[1].endpoint = "/get_group_msg_history"
    /\ received[1].kind = "json_object"
    /\ received[1].status = "ok"
    /\ Cardinality(Matching(Keyword, received[1].data.messages)) = 1

TheMatch == CHOOSE i \in Matching(Keyword, received[1].data.messages) : TRUE

\* C1: when the identity get_ids resolved is the self_id parameter, the execution returns
\* (False, "cannot poke self") and has made no /send_poke request.
C1_SelfTargetNotPoked ==
    (pc = "done" /\ SameIdentity(user_id, SelfId))
        => /\ outcome = Returned(FALSE, <<MsgSelf>>)
           /\ ~Called("/send_poke")

C1_Witness ==
    /\ pc = "done"
    /\ SameIdentity(user_id, SelfId)
    /\ user_id = PyI(1)
    /\ SelfId = PyS(<<"1">>)
    /\ Called("/get_group_msg_history")

\* C2: no exception leaves execute, whatever the configuration, the parameters and the
\* gateway do.
C2_NoExceptionEscapes == pc # "raised"

\* C3: execute returns success only if the /send_poke reply was a JSON object with
\* status "ok".
C3_SuccessOnlyOnOk ==
    (pc = "done" /\ outcome.ok)
        => /\ received # <<>>
           /\ received[1].kind = "json_object"
           /\ received[1].status = "ok"

\* C4 as claimed: with a known group and exactly one history message containing the
\* keyword, get_ids returns that message's sender.user_id and the member list is not
\* asked, whatever the sender record holds.
C4_AsClaimed ==
    OneHistoryMatch
        => /\ user_id = received[1].data.messages[TheMatch].sender.user_id
           /\ ~Called("/get_group_member_list")

\* the scan reaches the matching message (no earlier raw_message is null) and its sender
\* record carries a user_id
MatchUsable ==
    LET messages == received[1].data.messages
    IN  /\ \A j \in 1..(TheMatch - 1) : messages[j].raw_message # None
        /\ Truthy(messages[TheMatch].sender.user_id)

\* C4: with a known group and exactly one history message (of a status-ok reply)
\* containing the keyword, whose sender record carries a user_id and which the scan
\* reaches, get_ids returns that sender.user_id and the member list is not asked.
C4_HistoryMatchWins ==
    (OneHistoryMatch /\ MatchUsable)
        => /\ user_id = received[1].data.messages[TheMatch].sender.user_id
           /\ ~Called("/get_group_member_list")

C4_Witness ==
    /\ OneHistoryMatch
    /\ MatchUsable
    /\ Len(received[1].data.messages) = 2
    /\ received[1].data.messages[TheMatch].raw_message # Keyword
    /\ user_id = PyI(1)

\* C5 as claimed: with no context group id, the member list and the history are never
\* asked and the friend list is the only lookup.
C5_AsClaimed ==
    ~ContextGroupKnown
        => \A i \in DOMAIN calls : calls[i].endpoint \in {"/get_friend_list", "/send_poke"}

\* C5: with no context group id, the member list and the history are never asked; the
\* lookups are the friend list and the group list.
C5_NoGroupLookups ==
    ~ContextGroupKnown
        => \A i \in DOMAIN calls :
              calls[i].endpoint \in {"/get_friend_list", "/get_group_list", "/send_poke"}

C5_Witness ==
    /\ ~ContextGroupKnown
    /\ GetIdsReturned
    /\ Endpoints = <<"/get_friend_list", "/get_group_list">>

\* C6: when the /send_poke request fails outright, execute returns False with a message
\* that holds the exception's type name and text, with poke_debug on or off.
C6_SendFaultReported ==
    (pc = "done" /\ received # <<>> /\ received[1].kind = "error")
        => /\ outcome.returned
           /\ ~outcome.ok
           /\ InMessage(received[1].exc.type)
           /\ InMessage(received[1].exc.text)

C6_Witness ==
    /\ pc = "done"
    /\ received # <<>>
    /\ received[1].kind = "error"
    /\ received[1].exc.type = "TimeoutError"
    /\ ~poke_debug

\* C7: after every completed execution, a user_id entry of action_data is None.
C7_UserIdCleared ==
    (pc = "done" /\ "user_id" \in DOMAIN action_data) => action_data["user_id"] = None

\* the host, port and Authorization header of a request are those of a configuration
UsesConfig(call, cfg) ==
    /\ call.host = CfgGet(cfg, "host", DefaultHost)
    /\ int(CfgGet(cfg, "port", DefaultPort)) = [ok |-> TRUE, val |-> call.port]
    /\ call.authorization = (IF CfgGet(cfg, "token", "") # "" THEN <<CfgGet(cfg, "token", "")>>
                                                              ELSE <<>>)

\* C8: every gateway request of an execution uses the host, port and token of the
\* configuration file as it is on disk during that execution (the file changes between
\* executions only).
C8_RequestsUseDiskConfig ==
    [][Len(calls') > Len(calls) => UsesConfig(calls'[Len(calls')], disk)]_vars

\* every lookup of the resolution failed, and the stages ran in order
AllLookupsFailed ==
    /\ GetIdsReturned
    /\ Truthy(Keyword)
    /\ received # <<>>
    /\ \A i \in DOMAIN received : Failed(received[i])

StagesInOrder ==
    Endpoints = IF ContextGroupKnown
                THEN <<"/get_group_msg_history", "/get_group_member_list">>
                ELSE <<"/get_friend_list", "/get_group_list">>

\* C9 as claimed: when every lookup fails, the later stages are still tried in order and
\* get_ids returns no user identity with the context group id if known.
C9_AsClaimed ==
    AllLookupsFailed
        => /\ StagesInOrder
           /\ user_id = None
           /\ group_id = ContextGroupId

\* C9: when every lookup fails, the later stages are still tried in order and get_ids
\* returns the ambient user identity if one is known (none otherwise) with the context
\* group id if known (none otherwise).
C9_FailuresDegrade ==
    AllLookupsFailed
        => /\ StagesInOrder
           /\ user_id = Ambient
           /\ group_id = ContextGroupId

C9_Witness ==
    /\ AllLookupsFailed
    /\ Endpoints = <<"/get_group_msg_history", "/get_group_member_list">>
    /\ received[1].kind = "error"
    /\ received[2].kind = "json_object"
    /\ Ambient # None
    /\ user_id = Ambient

\* C10 as claimed: whenever get_ids ends with no identity from the lookups (also when the
\* keyword is missing or empty) and an ambient identity is known, it returns the ambient
\* identity.
C10_AsClaimed ==
    (GetIdsReturned /\ ~Truthy(looked_up) /\ Ambient # None) => user_id = Ambient

\* C10: whenever get_ids, given a non-empty keyword, ends with no identity from the
\* lookups and an ambient identity is known, it returns the ambient identity; with a
\* missing or empty keyword it returns no user identity.
C10_AmbientFallback ==
    (GetIdsReturned /\ ~Truthy(looked_up) /\ Ambient # None)
        => user_id = IF Truthy(Keyword) THEN Ambient ELSE None

C10_Witness ==
    /\ GetIdsReturned
    /\ Truthy(Keyword)
    /\ received # <<>>
    /\ ~Truthy(looked_up)
    /\ Ambient # None
    /\ user_id = Ambient

LookupEndpoints ==
    {"/get_group_msg_history", "/get_group_member_list", "/get_friend_list", "/get_group_list"}

\* C11: the gateway requests of an execution are the lookups of get_ids followed by at
\* most one /send_poke: /send_poke is the last request when it is made, every request
\* before it is a lookup, and it is made only once get_ids has returned and execute has
\* gone past the self check (never inside get_ids).
C11_ResolveThenSend ==
    /\ \A i \in DOMAIN calls :
          IF calls[i].endpoint = "/send_poke"
          THEN i = Len(calls) /\ pc \in {"done", "idle", "raised"}
          ELSE calls[i].endpoint \in LookupEndpoints
    /\ Cardinality({ i \in DOMAIN calls : calls[i].endpoint = "/send_poke" }) <= 1
    /\ pc \in {"get_ids", "history", "member", "friend", "group_list", "self_check"}
          => ~Called("/send_poke")

C11_Witness ==
    /\ pc = "done"
    /\ Endpoints = <<"/get_group_msg_history", "/get_group_member_list", "/send_poke">>
    /\ outcome.returned

====
